---- MODULE Spec2Model ----
(***************************************************************************)
(* A model of the Statement-of-Facts parser of AquaBot                     *)
(* (src/backend/app/agents/sof_parser.py, class SOFParserAgent).           *)
(*                                                                         *)
(* Text is modelled at the level of tokens: a document is a sequence of    *)
(* lines "<label>: <value>", a label is a sequence of lower-case words     *)
(* (the patterns are matched with re.IGNORECASE), a value is a sequence of *)
(* tokens (digit strings, punctuation, words).  Python floats are modelled *)
(* as exact rationals; datetime objects as records of their fields.        *)
(***************************************************************************)
EXTENDS Integers, Sequences, FiniteSets, TLC

(***************************************************************************)
(* Bounds of the model.                                                    *)
(***************************************************************************)
MaxLines == 3
MaxClock == 1
MaxCalls == 2

(***************************************************************************)
(* State: the clock, and one call of parse_sof_document with its locals.   *)
(***************************************************************************)
VARIABLES
    now,                  \* datetime.now()
    pc,                   \* position of the call in parse_sof_document
    text_content,         \* the decoded text of the call
    filename,
    extracted_data,
    parsed_data,
    laytime_calculations,
    financial_analysis,
    result,               \* what the call returned
    prev,                 \* an earlier call and its result, kept for comparison
    sof_patterns,         \* self.sof_patterns
    default_laytime_params,  \* self.default_laytime_params
    frames,               \* the locals of the calls that run side by side
    wallclock,            \* datetime.now() of the memory service, in minutes
    conversations,        \* MemoryService.conversations
    interactions,         \* MemoryService.interactions
    active_contexts,      \* MemoryService.active_contexts
    issued,               \* how many context ids uuid4 has handed out
    returned              \* the last call of the memory service and its value

vars == <<now, pc, text_content, filename, extracted_data, parsed_data,
          laytime_calculations, financial_analysis, result, prev,
          sof_patterns, default_laytime_params, frames,
          wallclock, conversations, interactions, active_contexts, issued, returned>>

\* the state of the memory service
memory == <<wallclock, conversations, interactions, active_contexts, issued, returned>>

\* the attributes of the agent
agent == <<sof_patterns, default_laytime_params>>

locals == <<extracted_data, parsed_data, laytime_calculations, financial_analysis>>

(***************************************************************************)
(* Python values.                                                          *)
(***************************************************************************)
None == [py |-> "None"]

\* dict.get(key): the value, or None when the key is missing
Get(d, k) == IF k \in DOMAIN d THEN d[k] ELSE None

\* the empty dict {}
EmptyDict == [k \in {} |-> None]

\* services/memory.py, MemoryService.__init__
MemoryService ==
    /\ wallclock = 0
    /\ conversations = EmptyDict
    /\ interactions = <<>>
    /\ active_contexts = EmptyDict
    /\ issued = 0
    /\ returned = None

(***************************************************************************)
(* Floats, as exact rationals n/d with d > 0 in lowest terms.              *)
(***************************************************************************)
Abs(x) == IF x < 0 THEN -x ELSE x

RECURSIVE GCD(_, _)
GCD(a, b) == IF b = 0 THEN a ELSE GCD(b, a % b)

Rat(n, d) ==
    LET g == GCD(Abs(n), Abs(d))
        s == IF d < 0 THEN -1 ELSE 1
    IN  [n |-> (s * n) \div g, d |-> (s * d) \div g]

Flt(i) == [n |-> i, d |-> 1]

FAdd(a, b) == Rat(a.n * b.d + b.n * a.d, a.d * b.d)
FSub(a, b) == Rat(a.n * b.d - b.n * a.d, a.d * b.d)
FMul(a, b) == Rat(a.n * b.n, a.d * b.d)
\* a / b for b # 0 (Python raises ZeroDivisionError for b = 0: the callers guard)
FDiv(a, b) == Rat(a.n * b.d, a.d * b.n)
FLeq(a, b) == a.n * b.d <= b.n * a.d
FLt(a, b)  == a.n * b.d < b.n * a.d
IsZero(a)  == a.n = 0

\* truthiness of an Optional[float]: None and 0.0 are falsy
TruthyFloat(x) == x # None /\ ~IsZero(x)

(***************************************************************************)
(* Tokens of text.                                                         *)
(***************************************************************************)
\* A token is a digit string (ds, with s empty), a punctuation character or a
\* word (s, with ds empty).
Punctuation == {" ", ",", ":", "/", "-", "."}

Num(ds)  == [s |-> "", ds |-> ds]
Sym(c)   == [s |-> c, ds |-> <<>>]
Word(w)  == [s |-> w, ds |-> <<>>]
Space    == Sym(" ")
Comma    == Sym(",")
Colon    == Sym(":")

IsNum(tok)  == tok.ds # <<>>
IsSym(tok, c) == tok.s = c
IsWord(tok) == tok.ds = <<>> /\ tok.s \notin Punctuation

\* int("0123")
RECURSIVE DigitsValue(_)
DigitsValue(ds) ==
    IF ds = <<>> THEN 0
    ELSE 10 * DigitsValue(SubSeq(ds, 1, Len(ds) - 1)) + ds[Len(ds)]

RECURSIVE Pow10(_)
Pow10(k) == IF k = 0 THEN 1 ELSE 10 * Pow10(k - 1)

(***************************************************************************)
(* datetime objects and datetime.strptime.                                 *)
(***************************************************************************)
DateTime(y, mo, d, h, mi) ==
    [year |-> y, month |-> mo, day |-> d, hour |-> h, minute |-> mi]

IsLeap(y) == (y % 4 = 0 /\ y % 100 # 0) \/ y % 400 = 0

DaysInMonth(y, mo) ==
    IF mo = 2 THEN (IF IsLeap(y) THEN 29 ELSE 28)
    ELSE IF mo \in {4, 6, 9, 11} THEN 30 ELSE 31

\* the datetime constructor raises ValueError outside these ranges
ValidDateTime(dt) ==
    /\ dt.year \in 1..9999
    /\ dt.month \in 1..12
    /\ dt.day \in 1..DaysInMonth(dt.year, dt.month)
    /\ dt.hour \in 0..23
    /\ dt.minute \in 0..59

\* proleptic Gregorian day number (date.toordinal up to a constant)
DayNumber(y, mo, d) ==
    LET yy  == IF mo <= 2 THEN y - 1 ELSE y
        era == yy \div 400
        yoe == yy - era * 400
        mp  == (mo + 9) % 12
        doy == (153 * mp + 2) \div 5 + d - 1
        doe == yoe * 365 + yoe \div 4 - yoe \div 100 + doy
    IN  era * 146097 + doe

MinuteNumber(dt) ==
    (DayNumber(dt.year, dt.month, dt.day) * 24 + dt.hour) * 60 + dt.minute

\* (a - b).total_seconds() / 3600
HoursBetween(a, b) == Rat(MinuteNumber(a) - MinuteNumber(b), 60)

\* One strptime directive against one token: the value it reads, or -1 when
\* the directive's regular expression does not consume the whole token.
Directive(dir, tok) ==
    LET len == Len(tok.ds)
        v   == DigitsValue(tok.ds)
    IN  IF ~IsNum(tok) THEN -1
        ELSE IF dir = "%d" THEN (IF len \in 1..2 /\ v \in 1..31 THEN v ELSE -1)
        ELSE IF dir = "%m" THEN (IF len \in 1..2 /\ v \in 1..12 THEN v ELSE -1)
        ELSE IF dir = "%Y" THEN (IF len = 4 THEN v ELSE -1)
        ELSE IF dir = "%y" THEN
            (IF len = 2 THEN (IF v < 69 THEN 2000 + v ELSE 1900 + v) ELSE -1)
        ELSE IF dir = "%H" THEN (IF len \in 1..2 /\ v \in 0..23 THEN v ELSE -1)
        ELSE IF dir = "%M" THEN (IF len \in 1..2 /\ v \in 0..59 THEN v ELSE -1)
        ELSE -1

DirectiveField(dir) ==
    IF dir = "%d" THEN "day"
    ELSE IF dir = "%m" THEN "month"
    ELSE IF dir \in {"%Y", "%y"} THEN "year"
    ELSE IF dir = "%H" THEN "hour"
    ELSE "minute"

Directives == {"%d", "%m", "%Y", "%y", "%H", "%M"}

\* index of the first token at or after i that is not a space
RECURSIVE SkipSpaces(_, _)
SkipSpaces(s, i) ==
    IF i <= Len(s) /\ IsSym(s[i], " ") THEN SkipSpaces(s, i + 1) ELSE i

\* Match format elements j.. against tokens i.. ; the format's white space
\* ("ws") stands for \s+, every other element is a directive or a literal.
RECURSIVE MatchFormat(_, _, _, _, _)
MatchFormat(s, i, fmt, j, acc) ==
    IF j > Len(fmt) THEN (IF i > Len(s) THEN acc ELSE None)
    ELSE IF i > Len(s) THEN None
    ELSE IF fmt[j] = "ws" THEN
        (IF IsSym(s[i], " ")
         THEN MatchFormat(s, SkipSpaces(s, i), fmt, j + 1, acc)
         ELSE None)
    ELSE IF fmt[j] \in Directives THEN
        (LET v == Directive(fmt[j], s[i])
         IN  IF v = -1 THEN None
             ELSE MatchFormat(s, i + 1, fmt, j + 1,
                              [acc EXCEPT ![DirectiveField(fmt[j])] = v]))
    ELSE IF IsSym(s[i], fmt[j]) THEN MatchFormat(s, i + 1, fmt, j + 1, acc)
    ELSE None

\* datetime.strptime(s, fmt): the datetime, or None where it raises ValueError
Strptime(s, fmt) ==
    LET r == MatchFormat(s, 1, fmt, 1, DateTime(1900, 1, 1, 0, 0))
    IN  IF r = None THEN None
        ELSE IF ValidDateTime(r) THEN r ELSE None

TimeFormat == <<",", "ws", "%H", ":", "%M">>

DateFormats == <<
    <<"%d", "/", "%m", "/", "%Y">>,
    <<"%d", "-", "%m", "-", "%Y">>,
    <<"%Y", "-", "%m", "-", "%d">>,
    <<"%d", "/", "%m", "/", "%y">>,
    <<"%d", "-", "%m", "-", "%y">> >>

DateTimeFormats == [k \in 1..Len(DateFormats) |-> DateFormats[k] \o TimeFormat]

\* the result of the first format of fmts[k..] that accepts s, else None
RECURSIVE FirstAccepted(_, _, _)
FirstAccepted(s, fmts, k) ==
    IF k > Len(fmts) THEN None
    ELSE LET r == Strptime(s, fmts[k])
         IN  IF r # None THEN r ELSE FirstAccepted(s, fmts, k + 1)

\* Variant for sensitivity: only the formats with a time are tried
ParseDatetimeWithTimeOnly(datetime_str) ==
    FirstAccepted(datetime_str, DateTimeFormats, 1)

_parse_datetime(datetime_str) ==
    LET r == FirstAccepted(datetime_str, DateTimeFormats, 1)
    IN  IF r # None THEN r ELSE FirstAccepted(datetime_str, DateFormats, 1)

(***************************************************************************)
(* The field pattern table (self.sof_patterns).  A pattern                 *)
(*     kw sep ( capture )                                                  *)
(* is a keyword (words joined by \s+), a separator class ("[:\s]+" or      *)
(* "\s+") and the shape of its capture group(s).                           *)
(***************************************************************************)
Pattern(kw, sep, shape) == [kw |-> kw, sep |-> sep, shape |-> shape]

FieldNames == <<"vessel_name", "voyage_number", "arrival_time",
                "departure_time", "nor_time", "laytime_allowed",
                "cargo_quantity", "berth_info", "port_name">>

Fields == {FieldNames[k] : k \in 1..Len(FieldNames)}

SofPatterns ==
    [f \in Fields |->
        CASE f = "vessel_name" ->
             << Pattern(<<"vessel">>, "[:\\s]+", "name"),
                Pattern(<<"m/v">>, "\\s+", "name"),
                Pattern(<<"m.v.">>, "\\s+", "name"),
                Pattern(<<"ship">>, "[:\\s]+", "name") >>
          [] f = "voyage_number" ->
             << Pattern(<<"voyage">>, "[:\\s]+", "alnum"),
                Pattern(<<"voy">>, "\\s+", "alnum"),
                Pattern(<<"voyage", "no">>, "[:\\s]+", "alnum") >>
          [] f = "arrival_time" ->
             << Pattern(<<"arrival">>, "[:\\s]+", "datetime"),
                Pattern(<<"arrived">>, "[:\\s]+", "datetime"),
                Pattern(<<"eta">>, "[:\\s]+", "datetime") >>
          [] f = "departure_time" ->
             << Pattern(<<"departure">>, "[:\\s]+", "datetime"),
                Pattern(<<"departed">>, "[:\\s]+", "datetime"),
                Pattern(<<"etd">>, "[:\\s]+", "datetime") >>
          [] f = "nor_time" ->
             << Pattern(<<"nor">>, "[:\\s]+", "datetime"),
                Pattern(<<"notice", "of", "readiness">>, "[:\\s]+", "datetime"),
                Pattern(<<"readiness">>, "[:\\s]+", "datetime") >>
          [] f = "laytime_allowed" ->
             << Pattern(<<"laytime">>, "[:\\s]+", "laytime"),
                Pattern(<<"lay", "time">>, "[:\\s]+", "laytime"),
                Pattern(<<"allowed", "time">>, "[:\\s]+", "laytime") >>
          [] f = "cargo_quantity" ->
             << Pattern(<<"cargo">>, "[:\\s]+", "cargo"),
                Pattern(<<"quantity">>, "[:\\s]+", "cargo"),
                Pattern(<<"loaded">>, "[:\\s]+", "cargo"),
                Pattern(<<"discharged">>, "[:\\s]+", "cargo") >>
          [] f = "berth_info" ->
             << Pattern(<<"berth">>, "[:\\s]+", "alnum"),
                Pattern(<<"terminal">>, "[:\\s]+", "alnum"),
                Pattern(<<"quay">>, "[:\\s]+", "alnum") >>
          [] f = "port_name" ->
             << Pattern(<<"port">>, "[:\\s]+", "alpha"),
                Pattern(<<"at">>, "\\s+", "alpha"),
                Pattern(<<"in">>, "\\s+", "alpha") >> ]

\* self.default_laytime_params
DefaultLaytimeParams ==
    [notice_period |-> 6,
     working_hours_per_day |-> 24,
     sundays_holidays_excluded |-> TRUE,
     weather_working_days |-> TRUE]

(***************************************************************************)
(* Matching one pattern at one position of a line of tokens.  A match is   *)
(* [ok, end, groups]: end is the index after the match, groups the         *)
(* non-empty captured strings, each a sequence of tokens.                  *)
(***************************************************************************)
NoMatch == [ok |-> FALSE, end |-> 0, groups |-> <<>>]
Matched(e, gs) == [ok |-> TRUE, end |-> e, groups |-> gs]

\* index after the longest run, starting at i, of symbols among chars
RECURSIVE SkipClass(_, _, _)
SkipClass(s, i, chars) ==
    IF i <= Len(s) /\ s[i].s \in chars
    THEN SkipClass(s, i + 1, chars) ELSE i

\* index after the keyword words kw[k..] found at i (words separated by \s+),
\* or 0 when the keyword is not at i
RECURSIVE KeywordEnd(_, _, _, _)
KeywordEnd(s, i, kw, k) ==
    IF i > Len(s) THEN 0
    ELSE IF s[i].s # kw[k] THEN 0
    ELSE IF k = Len(kw) THEN i + 1
    ELSE IF SkipSpaces(s, i + 1) = i + 1 THEN 0
    ELSE KeywordEnd(s, SkipSpaces(s, i + 1), kw, k + 1)

SepChars(sep) == IF sep = "[:\\s]+" THEN {":", " "} ELSE {" "}

\* str.strip() on a string of tokens
RECURSIVE Strip(_)
Strip(s) ==
    IF s = <<>> THEN s
    ELSE IF IsSym(s[1], " ") THEN Strip(Tail(s))
    ELSE IF IsSym(s[Len(s)], " ") THEN Strip(SubSeq(s, 1, Len(s) - 1))
    ELSE s

\* [0-9]{1,2}[/\-][0-9]{1,2}[/\-][0-9]{2,4}[,\s]+[0-9]{1,2}:[0-9]{2}
DateTimeCapture(s, i) ==
    LET j == SkipClass(s, i + 5, {",", " "})
    IN  IF /\ i + 4 <= Len(s)
           /\ IsNum(s[i])     /\ Len(s[i].ds) \in 1..2
           /\ s[i + 1].s \in {"/", "-"}
           /\ IsNum(s[i + 2]) /\ Len(s[i + 2].ds) \in 1..2
           /\ s[i + 3].s \in {"/", "-"}
           /\ IsNum(s[i + 4]) /\ Len(s[i + 4].ds) \in 2..4
           /\ j > i + 5
           /\ j + 2 <= Len(s)
           /\ IsNum(s[j])     /\ Len(s[j].ds) \in 1..2
           /\ IsSym(s[j + 1], ":")
           /\ IsNum(s[j + 2]) /\ Len(s[j + 2].ds) >= 2
        THEN Matched(j + 3,
                 << SubSeq(s, i, j + 1)
                    \o << Num(SubSeq(s[j + 2].ds, 1, 2)) >> >>)
        ELSE NoMatch

\* index after [0-9]+(?:\.[0-9]+)? (withCommas: [0-9,]+(?:\.[0-9]+)?) at i,
\* or 0 when there is none
RECURSIVE SkipNumberBody(_, _, _)
SkipNumberBody(s, i, withCommas) ==
    IF i <= Len(s) /\ (IsNum(s[i]) \/ (withCommas /\ IsSym(s[i], ",")))
    THEN SkipNumberBody(s, i + 1, withCommas) ELSE i

NumberEnd(s, i, withCommas) ==
    LET j == IF withCommas THEN SkipNumberBody(s, i, TRUE)
             ELSE IF i <= Len(s) /\ IsNum(s[i]) THEN i + 1 ELSE i
    IN  IF j = i THEN 0
        ELSE IF j + 1 <= Len(s) /\ IsSym(s[j], ".") /\ IsNum(s[j + 1])
        THEN j + 2
        ELSE j

LaytimeUnits == {"hour", "hours", "day", "days"}
CargoUnits   == {"mt", "ton", "tons"}

\* index after the unit at i, or 0: (hours?|days?) or (mt|tons?|metric\s+tons?)
UnitEnd(s, i, shape) ==
    IF i > Len(s) \/ ~IsWord(s[i]) THEN 0
    ELSE IF shape = "laytime" THEN (IF s[i].s \in LaytimeUnits THEN i + 1 ELSE 0)
    ELSE IF s[i].s \in CargoUnits THEN i + 1
    ELSE IF /\ s[i].s = "metric"
            /\ SkipSpaces(s, i + 1) > i + 1
            /\ SkipSpaces(s, i + 1) <= Len(s)
            /\ s[SkipSpaces(s, i + 1)] \in {Word("ton"), Word("tons")}
         THEN SkipSpaces(s, i + 1) + 1
    ELSE 0

\* (number)\s*(unit): two groups, the number and the unit
QuantityCapture(s, i, shape) ==
    LET n == NumberEnd(s, i, shape = "cargo")
        u == SkipSpaces(s, n)
        e == UnitEnd(s, u, shape)
    IN  IF n = 0 \/ e = 0 THEN NoMatch
        ELSE Matched(e, << SubSeq(s, i, n - 1), SubSeq(s, u, e - 1) >>)

NameClass(tok, shape) ==
    \/ IsWord(tok)
    \/ IsSym(tok, " ")
    \/ (shape \in {"name", "alnum"} /\ IsSym(tok, "-"))
    \/ (shape = "alnum" /\ IsNum(tok))

\* ([A-Za-z\s\-]+?)(?:\n|$) and its variants: the rest of the line, when all
\* of it is in the class; the caller keeps match.strip() when it is not empty
NameCapture(s, i, shape) ==
    IF i <= Len(s) /\ \A k \in i..Len(s) : NameClass(s[k], shape)
    THEN Matched(Len(s) + 1,
             IF Strip(SubSeq(s, i, Len(s))) = <<>> THEN <<>>
             ELSE << Strip(SubSeq(s, i, Len(s))) >>)
    ELSE NoMatch

MatchAt(s, i, pat) ==
    LET k == KeywordEnd(s, i, pat.kw, 1)
        j == SkipClass(s, k, SepChars(pat.sep))
    IN  IF k = 0 \/ j = k THEN NoMatch
        ELSE IF pat.shape = "datetime" THEN DateTimeCapture(s, j)
        ELSE IF pat.shape \in {"laytime", "cargo"} THEN QuantityCapture(s, j, pat.shape)
        ELSE NameCapture(s, j, pat.shape)

\* re.findall on one line: the groups of the non-overlapping matches, left to
\* right
RECURSIVE FindAllInLine(_, _, _)
FindAllInLine(s, i, pat) ==
    IF i > Len(s) THEN <<>>
    ELSE LET m == MatchAt(s, i, pat)
         IN  IF m.ok THEN m.groups \o FindAllInLine(s, m.end, pat)
             ELSE FindAllInLine(s, i + 1, pat)

\* re.findall(pattern, text_content, re.IGNORECASE) over the lines of the text
RECURSIVE FindAll(_, _, _)
FindAll(text, l, pat) ==
    IF l > Len(text) THEN <<>>
    ELSE FindAllInLine(text[l], 1, pat) \o FindAll(text, l + 1, pat)

RECURSIVE AllPatterns(_, _, _)
AllPatterns(text, pats, k) ==
    IF k > Len(pats) THEN <<>>
    ELSE FindAll(text, 1, pats[k]) \o AllPatterns(text, pats, k + 1)

\* Variant for sensitivity: every match is kept
KeepAll(ms) == ms

\* Variant for sensitivity: of equal matches the last one is kept
RECURSIVE KeepLast(_)
KeepLast(ms) ==
    IF ms = <<>> THEN <<>>
    ELSE IF \E k \in 2..Len(ms) : ms[k] = ms[1] THEN KeepLast(Tail(ms))
    ELSE <<ms[1]>> \o KeepLast(Tail(ms))

\* "Remove duplicates while preserving order"
RECURSIVE Unique(_)
Unique(ms) ==
    IF ms = <<>> THEN <<>>
    ELSE LET init == Unique(SubSeq(ms, 1, Len(ms) - 1))
             last == ms[Len(ms)]
         IN  IF \E k \in 1..Len(init) : init[k] = last THEN init
             ELSE Append(init, last)

_extract_sof_data(text, patterns) ==
    [f \in DOMAIN patterns |-> Unique(AllPatterns(text, patterns[f], 1))]

(***************************************************************************)
(* Normalisation of the first candidate of a field.                        *)
(***************************************************************************)
\* float("<int>.<frac>") of digit strings
DecimalValue(int, frac) ==
    Rat(DigitsValue(int) * Pow10(Len(frac)) + DigitsValue(frac), Pow10(Len(frac)))

\* float() of the number s[i..e-1], commas removed; None where float() raises
\* ValueError (no digit is left)
RECURSIVE DigitsOf(_, _, _)
DigitsOf(s, i, e) ==
    IF i >= e THEN <<>>
    ELSE IF IsNum(s[i]) THEN s[i].ds \o DigitsOf(s, i + 1, e)
    ELSE DigitsOf(s, i + 1, e)

NumberValue(s, i, e) ==
    LET dot == IF e - 2 >= i /\ IsSym(s[e - 2], ".") THEN e - 2 ELSE e
        int == DigitsOf(s, i, dot)
        frac == DigitsOf(s, dot, e)
    IN  IF int = <<>> THEN None ELSE DecimalValue(int, frac)

\* re.search: the first position at which the quantity pattern matches, or 0
RECURSIVE SearchQuantity(_, _, _)
SearchQuantity(s, i, shape) ==
    IF i > Len(s) THEN 0
    ELSE IF QuantityCapture(s, i, shape).ok THEN i
    ELSE SearchQuantity(s, i + 1, shape)

\* Variant for sensitivity: the number is returned whatever the unit
ParseLaytimeIgnoringUnit(laytime_str) ==
    LET i == SearchQuantity(laytime_str, 1, "laytime")
    IN  IF i = 0 THEN None
        ELSE NumberValue(laytime_str, i, NumberEnd(laytime_str, i, FALSE))

_parse_laytime(laytime_str) ==
    LET i == SearchQuantity(laytime_str, 1, "laytime")
        n == NumberEnd(laytime_str, i, FALSE)
        unit == QuantityCapture(laytime_str, i, "laytime").groups[2][1].s
        value == NumberValue(laytime_str, i, n)
    IN  IF i = 0 THEN None
        ELSE IF unit \in {"day", "days"} THEN FMul(value, Flt(24))
        ELSE value

\* re.search of [0-9,]+(?:\.[0-9]+)?: the first position holding a digit or a
\* comma, or 0
RECURSIVE SearchNumber(_, _)
SearchNumber(s, i) ==
    IF i > Len(s) THEN 0
    ELSE IF NumberEnd(s, i, TRUE) # 0 THEN i
    ELSE SearchNumber(s, i + 1)

_parse_cargo_quantity(cargo_str) ==
    LET i == SearchNumber(cargo_str, 1)
    IN  IF i = 0 THEN None
        ELSE NumberValue(cargo_str, i, NumberEnd(cargo_str, i, TRUE))

\* one optional key of parsed_data: set when the field has a candidate
ParsedKey(extracted, field, key, value) ==
    IF field \in DOMAIN extracted /\ extracted[field] # <<>>
    THEN key :> value
    ELSE EmptyDict

\* Variant for sensitivity: the last candidate of a field is normalised
ParseLastCandidate(extracted) ==
    LET last(field) == extracted[field][Len(extracted[field])]
    IN  ParsedKey(extracted, "arrival_time", "arrival_datetime",
                  _parse_datetime(last("arrival_time")))
        @@ ParsedKey(extracted, "departure_time", "departure_datetime",
                     _parse_datetime(last("departure_time")))
        @@ ParsedKey(extracted, "nor_time", "nor_datetime",
                     _parse_datetime(last("nor_time")))
        @@ ParsedKey(extracted, "laytime_allowed", "laytime_hours",
                     _parse_laytime(last("laytime_allowed")))
        @@ ParsedKey(extracted, "cargo_quantity", "cargo_mt",
                     _parse_cargo_quantity(last("cargo_quantity")))
        @@ extracted

_parse_dates_and_times(extracted) ==
    LET first(field) == extracted[field][1]
    IN  ParsedKey(extracted, "arrival_time", "arrival_datetime",
                  _parse_datetime(first("arrival_time")))
        @@ ParsedKey(extracted, "departure_time", "departure_datetime",
                     _parse_datetime(first("departure_time")))
        @@ ParsedKey(extracted, "nor_time", "nor_datetime",
                     _parse_datetime(first("nor_time")))
        @@ ParsedKey(extracted, "laytime_allowed", "laytime_hours",
                     _parse_laytime(first("laytime_allowed")))
        @@ ParsedKey(extracted, "cargo_quantity", "cargo_mt",
                     _parse_cargo_quantity(first("cargo_quantity")))
        @@ extracted

(***************************************************************************)
(* Laytime calculation.                                                    *)
(***************************************************************************)
LaytimeError == [error |-> "Laytime calculation failed: float division by zero"]

\* lines 269-280: the classification against the allowed laytime
LaytimeStatus(total_hours, laytime_allowed) ==
    IF FLeq(total_hours, laytime_allowed)
    THEN [laytime_status |-> "within_limit",
          time_saved_hours |-> FSub(laytime_allowed, total_hours),
          time_saved_days |-> FDiv(FSub(laytime_allowed, total_hours), Flt(24))]
    ELSE [laytime_status |-> "exceeded",
          time_exceeded_hours |-> FSub(total_hours, laytime_allowed),
          time_exceeded_days |-> FDiv(FSub(total_hours, laytime_allowed), Flt(24))]

\* lines 260-280: the entries computed from the NOR and departure timestamps
LaytimeTotals(nor_time, departure_time, laytime_allowed) ==
    LET total_hours == HoursBetween(departure_time, nor_time)
    IN  IF nor_time # None /\ departure_time # None
        THEN [total_time_hours |-> total_hours,
              total_time_days |-> FDiv(total_hours, Flt(24))]
             @@ (IF TruthyFloat(laytime_allowed)
                 THEN [laytime_allowed_hours |-> laytime_allowed,
                       laytime_allowed_days |-> FDiv(laytime_allowed, Flt(24))]
                      @@ LaytimeStatus(total_hours, laytime_allowed)
                 ELSE EmptyDict)
        ELSE EmptyDict

\* lines 282-286: the cargo handling rate; the division raises
\* ZeroDivisionError when total_time_hours is 0.0, and the except clause
\* (lines 290-292) then returns the error dict in place of the calculations
CargoRate(cargo_mt, calculations) ==
    IF TruthyFloat(cargo_mt) /\ "total_time_hours" \in DOMAIN calculations
    THEN IF IsZero(calculations["total_time_hours"])
         THEN LaytimeError
         ELSE calculations
              @@ [cargo_rate_mt_per_hour |->
                      FDiv(cargo_mt, calculations["total_time_hours"]),
                  cargo_rate_mt_per_day |->
                      FDiv(cargo_mt, calculations["total_time_days"])]
    ELSE calculations

\* Variant for sensitivity: the NOR timestamp falls back to the arrival timestamp
CalculateLaytimeFromArrival(parsed) ==
    CargoRate(Get(parsed, "cargo_mt"),
              LaytimeTotals(IF Get(parsed, "nor_datetime") # None
                            THEN Get(parsed, "nor_datetime")
                            ELSE Get(parsed, "arrival_datetime"),
                            Get(parsed, "departure_datetime"),
                            Get(parsed, "laytime_hours")))

\* Variant for sensitivity: a vessel that has not departed is timed up to the present day
CalculateLaytimeUpToNow(parsed) ==
    CargoRate(Get(parsed, "cargo_mt"),
              LaytimeTotals(Get(parsed, "nor_datetime"),
                            IF Get(parsed, "departure_datetime") # None
                            THEN Get(parsed, "departure_datetime")
                            ELSE DateTime(2024, 3, 3 + now, 0, 0),
                            Get(parsed, "laytime_hours")))

\* Variant for sensitivity: the clock runs from the arrival when it is known
CalculateLaytimeSinceArrival(parsed) ==
    CargoRate(Get(parsed, "cargo_mt"),
              LaytimeTotals(IF Get(parsed, "arrival_datetime") # None
                            THEN Get(parsed, "arrival_datetime")
                            ELSE Get(parsed, "nor_datetime"),
                            Get(parsed, "departure_datetime"),
                            Get(parsed, "laytime_hours")))

_calculate_laytime(parsed) ==
    CargoRate(Get(parsed, "cargo_mt"),
              LaytimeTotals(Get(parsed, "nor_datetime"),
                            Get(parsed, "departure_datetime"),
                            Get(parsed, "laytime_hours")))

(***************************************************************************)
(* Financial analysis.                                                     *)
(***************************************************************************)
DemurrageRateUsdPerDay == 25000
DespatchRateUsdPerDay == 12500

example_rates ==
    [demurrage_rate_usd_per_day |-> Flt(DemurrageRateUsdPerDay),
     despatch_rate_usd_per_day |-> Flt(DespatchRateUsdPerDay)]

RatesNote == "Rates are examples. Actual rates should be verified from charter party."

\* Variant for sensitivity: despatch paid at the demurrage rate
DespatchAtDemurrageRate(calculations) ==
    LET time_saved_days == IF "time_saved_days" \in DOMAIN calculations
                           THEN calculations["time_saved_days"] ELSE Flt(0)
    IN  [despatch_amount_usd |->
             FMul(time_saved_days, example_rates["demurrage_rate_usd_per_day"]),
         despatch_rate_usd_per_day |-> example_rates["despatch_rate_usd_per_day"],
         time_saved_days |-> time_saved_days,
         financial_impact |-> "positive"]

\* lines 309-317
Despatch(calculations) ==
    LET time_saved_days == IF "time_saved_days" \in DOMAIN calculations
                           THEN calculations["time_saved_days"] ELSE Flt(0)
    IN  [despatch_amount_usd |->
             FMul(time_saved_days, example_rates["despatch_rate_usd_per_day"]),
         despatch_rate_usd_per_day |-> example_rates["despatch_rate_usd_per_day"],
         time_saved_days |-> time_saved_days,
         financial_impact |-> "positive"]

\* Variant for sensitivity: the demurrage entry reports the despatch rate
DemurrageReportingDespatchRate(calculations) ==
    LET time_exceeded_days == IF "time_exceeded_days" \in DOMAIN calculations
                              THEN calculations["time_exceeded_days"] ELSE Flt(0)
    IN  [demurrage_amount_usd |->
             FMul(time_exceeded_days, example_rates["demurrage_rate_usd_per_day"]),
         demurrage_rate_usd_per_day |-> example_rates["despatch_rate_usd_per_day"],
         time_exceeded_days |-> time_exceeded_days,
         financial_impact |-> "negative"]

\* lines 319-327
Demurrage(calculations) ==
    LET time_exceeded_days == IF "time_exceeded_days" \in DOMAIN calculations
                              THEN calculations["time_exceeded_days"] ELSE Flt(0)
    IN  [demurrage_amount_usd |->
             FMul(time_exceeded_days, example_rates["demurrage_rate_usd_per_day"]),
         demurrage_rate_usd_per_day |-> example_rates["demurrage_rate_usd_per_day"],
         time_exceeded_days |-> time_exceeded_days,
         financial_impact |-> "negative"]

\* lines 329-331
RateInformation == [example_rates |-> example_rates, note |-> RatesNote]

_analyze_financial_implications(parsed, calculations) ==
    (IF "laytime_status" \in DOMAIN calculations
     THEN IF calculations["laytime_status"] = "within_limit"
          THEN Despatch(calculations)
          ELSE IF calculations["laytime_status"] = "exceeded"
          THEN Demurrage(calculations)
          ELSE EmptyDict
     ELSE EmptyDict)
    @@ RateInformation

(***************************************************************************)
(* Confidence score.                                                       *)
(***************************************************************************)
CriticalFields == {"vessel_name", "arrival_time", "departure_time"}

\* round(x, 2) for x >= 0 (no value of the score is a tie between two
\* hundredths, so the rounding direction of ties does not matter)
Round2(x) == Rat((2 * 100 * x.n + x.d) \div (2 * x.d), 100)

FMin(a, b) == IF FLeq(a, b) THEN a ELSE b

\* Variant for sensitivity: the score is the share of fields with data alone
ConfidenceWithoutCriticalBoost(extracted) ==
    Round2(FMin(Rat(Cardinality({f \in DOMAIN extracted : extracted[f] # <<>>}),
                    Cardinality(DOMAIN extracted)),
                Flt(1)))

\* Variant for sensitivity: the sum is not capped at 1.0
ConfidenceWithoutCap(extracted) ==
    Round2(FAdd(Rat(Cardinality({f \in DOMAIN extracted : extracted[f] # <<>>}),
                    Cardinality(DOMAIN extracted)),
                FMul(Rat(Cardinality({f \in CriticalFields : extracted[f] # <<>>}),
                         3),
                     Rat(2, 10))))

\* Variant for sensitivity: the base counts the fields without a candidate
ConfidenceOfMissingFields(extracted) ==
    Round2(FMin(FAdd(Rat(Cardinality({f \in DOMAIN extracted : extracted[f] = <<>>}),
                         Cardinality(DOMAIN extracted)),
                     FMul(Rat(Cardinality({f \in CriticalFields : extracted[f] # <<>>}),
                              3),
                          Rat(2, 10))),
                Flt(1)))

\* Variant for sensitivity: a critical boost of 0.1
ConfidenceWithHalvedBoost(extracted) ==
    Round2(FMin(FAdd(Rat(Cardinality({f \in DOMAIN extracted : extracted[f] # <<>>}),
                         Cardinality(DOMAIN extracted)),
                     FMul(Rat(Cardinality({f \in CriticalFields : extracted[f] # <<>>}),
                              3),
                          Rat(1, 10))),
                Flt(1)))

_calculate_confidence_score(extracted) ==
    LET fields_with_data ==
            Cardinality({f \in DOMAIN extracted : extracted[f] # <<>>})
        total_fields == Cardinality(DOMAIN extracted)
        base_confidence == IF total_fields > 0
                           THEN Rat(fields_with_data, total_fields) ELSE Flt(0)
        critical_boost == Rat(2, 10)
        critical_fields_present ==
            Cardinality({f \in CriticalFields :
                            f \in DOMAIN extracted /\ extracted[f] # <<>>})
        critical_confidence ==
            FMul(Rat(critical_fields_present, Cardinality(CriticalFields)),
                 critical_boost)
    IN  Round2(FMin(FAdd(base_confidence, critical_confidence), Flt(1)))

(***************************************************************************)
(* The documents and the stage inputs the model draws from.                *)
(***************************************************************************)
D2(a, b) == Num(<<a, b>>)
Label(w) == <<Word(w), Colon, Space>>

\* "01/03/2024, 08:00" and "02/03/2024, 14:00"
StampA == <<D2(0, 1), Sym("/"), D2(0, 3), Sym("/"), Num(<<2, 0, 2, 4>>),
            Comma, Space, D2(0, 8), Colon, D2(0, 0)>>
StampB == <<D2(0, 2), Sym("/"), D2(0, 3), Sym("/"), Num(<<2, 0, 2, 4>>),
            Comma, Space, D2(1, 4), Colon, D2(0, 0)>>

Lines ==
    { Label("nor") \o StampA,
      Label("nor") \o StampB,
      Label("departure") \o StampA,
      Label("departure") \o StampB,
      Label("cargo") \o <<Num(<<1>>), Comma, Num(<<0, 0, 0>>), Space, Word("mt")>>,
      Label("laytime") \o <<D2(2, 4), Space, Word("hours")>> }

Documents == UNION {[1..n -> Lines] : n \in 0..MaxLines}

Filenames == {"sof.txt"}

\* inputs of the laytime stage: datetimes, hours and tons, or None
Times == { DateTime(2024, 3, 1, 8, 0), DateTime(2024, 3, 1, 8, 20),
           DateTime(2024, 3, 2, 4, 0), DateTime(2024, 3, 2, 14, 0) }
Hours == { Flt(0), Rat(3, 2), Flt(20), Flt(24) }
Tons  == { Flt(0), Flt(1000) }

ParsedInputs ==
    [nor_datetime : Times \cup {None},
     departure_datetime : Times \cup {None},
     arrival_datetime : {DateTime(2024, 3, 1, 8, 0), None},
     laytime_hours : Hours \cup {None},
     cargo_mt : Tons \cup {None}]

\* candidate strings, as _extract_sof_data hands them to the normalisers
DateString(a, sep, b, c) == <<a, Sym(sep), b, Sym(sep), c>>
ClockString(h, m) == <<Comma, Space, h, Colon, m>>
Year4 == Num(<<2, 0, 2, 4>>)

\* 01/03/2024  01-03-2024  2024-03-01  01/03/24  01-03-24
DateStrings ==
    { DateString(D2(0, 1), "/", D2(0, 3), Year4),
      DateString(D2(0, 1), "-", D2(0, 3), Year4),
      DateString(Year4, "-", D2(0, 3), D2(0, 1)),
      DateString(D2(0, 1), "/", D2(0, 3), D2(2, 4)),
      DateString(D2(0, 1), "-", D2(0, 3), D2(2, 4)) }

\* "31/02/2024, 14:00", "01/03/2024 08:00", "01/03/2024, 25:00", "01.03.2024"
Feb31 == DateString(D2(3, 1), "/", D2(0, 2), Year4) \o ClockString(D2(1, 4), D2(0, 0))
NoComma == DateString(D2(0, 1), "/", D2(0, 3), Year4) \o <<Space, D2(0, 8), Colon, D2(0, 0)>>
Hour25 == DateString(D2(0, 1), "/", D2(0, 3), Year4) \o ClockString(D2(2, 5), D2(0, 0))
Dotted == DateString(D2(0, 1), ".", D2(0, 3), Year4)

TimestampStrings ==
    DateStrings
    \cup {d \o ClockString(D2(0, 8), D2(0, 0)) : d \in DateStrings}
    \cup {Feb31, NoComma, Hour25, Dotted}

\* "3 days" "48 hours" "48hours" "1.5 days" "1 day" "24" "hours" "3 weeks"
\* "about 2 days"
LaytimeStrings ==
    { <<Num(<<3>>), Space, Word("days")>>,
      <<D2(4, 8), Space, Word("hours")>>,
      <<D2(4, 8), Word("hours")>>,
      <<Num(<<1>>), Sym("."), Num(<<5>>), Space, Word("days")>>,
      <<Num(<<1>>), Space, Word("day")>>,
      <<D2(2, 4)>>,
      <<Word("hours")>>,
      <<Num(<<3>>), Space, Word("weeks")>>,
      <<Word("about"), Space, Num(<<2>>), Space, Word("days")>> }

\* "1,000" "," "mt" "2.5"
CargoStrings ==
    { <<Num(<<1>>), Comma, Num(<<0, 0, 0>>)>>,
      <<Comma>>,
      <<Word("mt")>>,
      <<Num(<<2>>), Sym("."), Num(<<5>>)>> }

NameString == <<Word("ocean"), Space, Word("star")>>

\* one candidate of each field
Standard ==
    [f \in Fields |->
        IF f \in {"arrival_time", "nor_time"} THEN StampA
        ELSE IF f = "departure_time" THEN StampB
        ELSE IF f = "laytime_allowed" THEN <<D2(2, 4)>>
        ELSE IF f = "cargo_quantity" THEN <<Num(<<1>>), Comma, Num(<<0, 0, 0>>)>>
        ELSE NameString]

\* raw extractions: every combination of fields with and without a candidate,
\* and every combination of first candidates of the normalised fields, alone
\* or followed by a second candidate
PresenceExtractions ==
    {[f \in Fields |-> IF f \in S THEN <<Standard[f]>> ELSE <<>>] : S \in SUBSET Fields}

CandidateExtractions ==
    {[f \in Fields |->
        IF f = "nor_time" THEN <<t>>
        ELSE IF f = "departure_time" THEN d
        ELSE IF f = "laytime_allowed" THEN <<l>>
        ELSE IF f = "cargo_quantity" THEN <<c>>
        ELSE <<>>] :
        t \in TimestampStrings,
        d \in {<<StampB>>, <<Feb31, StampB>>, <<StampB, Feb31>>},
        l \in LaytimeStrings,
        c \in CargoStrings}

RawExtractions == PresenceExtractions \cup CandidateExtractions

\* a statement of facts in blocks of lines, one field a line, with some fields
\* stated more than once; the documents are the statement with any of its
\* blocks left out
FullStatement == <<
    << Label("vessel") \o NameString >>,
    << Label("arrived") \o NoComma >>,
    << Label("arrival") \o StampA >>,
    << Label("eta") \o StampA >>,
    << Label("departure") \o Feb31 >>,
    << Label("departure") \o StampB >>,
    << Label("nor") \o StampA >>,
    << Label("laytime") \o <<D2(2, 4), Space, Word("hours")>> >>,
    << Label("cargo") \o <<Comma, Space, Word("mt")>> >>,
    << Label("cargo") \o <<Num(<<1>>), Comma, Num(<<0, 0, 0>>), Space, Word("mt")>> >>,
    << Label("voyage") \o <<Word("v"), Space, D2(1, 2)>>,
       Label("berth") \o <<Num(<<7>>)>>,
       Label("port") \o <<Word("karachi")>> >> >>

RECURSIVE Keep(_, _)
Keep(k, S) ==
    IF k > Len(FullStatement) THEN <<>>
    ELSE (IF k \in S THEN FullStatement[k] ELSE <<>>) \o Keep(k + 1, S)

FieldDocuments == {Keep(1, S) : S \in SUBSET (1..Len(FullStatement))}

(***************************************************************************)
(* The calls of parse_sof_document.                                        *)
(***************************************************************************)
Init ==
    /\ now = 0
    /\ pc = "idle"
    /\ text_content = <<>>
    /\ filename = ""
    /\ extracted_data = EmptyDict
    /\ parsed_data = EmptyDict
    /\ laytime_calculations = EmptyDict
    /\ financial_analysis = EmptyDict
    /\ result = None
    /\ prev = None
    /\ sof_patterns = SofPatterns
    /\ default_laytime_params = DefaultLaytimeParams
    /\ frames = EmptyDict
    /\ MemoryService

\* the clock advances at any moment
Tick ==
    /\ now < MaxClock
    /\ now' = now + 1
    /\ UNCHANGED <<pc, text_content, filename, locals, result, prev>>
    /\ UNCHANGED <<agent, frames, memory>>

Enter(text, name) ==
    /\ text_content' = text
    /\ filename' = name
    /\ pc' = "extract"
    /\ extracted_data' = EmptyDict
    /\ parsed_data' = EmptyDict
    /\ laytime_calculations' = EmptyDict
    /\ financial_analysis' = EmptyDict
    /\ result' = None
    /\ UNCHANGED now
    /\ UNCHANGED <<agent, frames, memory>>

\* lines 78-91: the text the stages read.  The content is text already; for
\* a name ending in .pdf and a short text PyMuPDF is tried on the content,
\* fails on content that is no PDF stream, and the text is kept (line 90)
DecodedText(content, name) == content

\* parse_sof_document(content, filename) is entered
Call(content, name) ==
    /\ pc = "idle"
    /\ Enter(DecodedText(content, name), name)
    /\ UNCHANGED prev

\* Variant for sensitivity: the alternatives of a field that yielded nothing
\* are dropped from the agent's table
ExtractSofDataPruningTable ==
    LET extracted == _extract_sof_data(text_content, sof_patterns)
    IN  /\ pc = "extract"
        /\ extracted_data' = extracted
        /\ sof_patterns' = [f \in DOMAIN sof_patterns |->
                                IF extracted[f] = <<>> THEN <<>>
                                ELSE sof_patterns[f]]
        /\ pc' = "parse"
        /\ UNCHANGED <<now, text_content, filename, parsed_data,
                       laytime_calculations, financial_analysis, result, prev,
                       default_laytime_params, frames, memory>>

\* line 94
ExtractSofData ==
    /\ pc = "extract"
    /\ extracted_data' = _extract_sof_data(text_content, sof_patterns)
    /\ pc' = "parse"
    /\ UNCHANGED <<now, text_content, filename, parsed_data,
                   laytime_calculations, financial_analysis, result, prev>>
    /\ UNCHANGED <<agent, frames, memory>>

\* line 97
ParseDatesAndTimes ==
    /\ pc = "parse"
    /\ parsed_data' = _parse_dates_and_times(extracted_data)
    /\ pc' = "laytime"
    /\ UNCHANGED <<now, text_content, filename, extracted_data,
                   laytime_calculations, financial_analysis, result, prev>>
    /\ UNCHANGED <<agent, frames, memory>>

\* line 100
CalculateLaytime ==
    /\ pc = "laytime"
    /\ laytime_calculations' = _calculate_laytime(parsed_data)
    /\ pc' = "financial"
    /\ UNCHANGED <<now, text_content, filename, extracted_data, parsed_data,
                   financial_analysis, result, prev>>
    /\ UNCHANGED <<agent, frames, memory>>

\* line 103
AnalyzeFinancialImplications ==
    /\ pc = "financial"
    /\ financial_analysis' =
           _analyze_financial_implications(parsed_data, laytime_calculations)
    /\ pc' = "return"
    /\ UNCHANGED <<now, text_content, filename, extracted_data, parsed_data,
                   laytime_calculations, result, prev>>
    /\ UNCHANGED <<agent, frames, memory>>

\* lines 105-113: the dict the call returns
ParseResult(name, extracted, parsed, calculations, financial, clock) ==
    [filename |-> name,
     extracted_data |-> extracted,
     parsed_data |-> parsed,
     laytime_calculations |-> calculations,
     financial_analysis |-> financial,
     analysis_timestamp |-> clock,
     confidence_score |-> _calculate_confidence_score(extracted)]

Return ==
    /\ pc = "return"
    /\ result' = ParseResult(filename, extracted_data, parsed_data,
                             laytime_calculations, financial_analysis, now)
    /\ pc' = "done"
    /\ extracted_data' = EmptyDict
    /\ parsed_data' = EmptyDict
    /\ laytime_calculations' = EmptyDict
    /\ financial_analysis' = EmptyDict
    /\ UNCHANGED <<now, text_content, filename, prev>>
    /\ UNCHANGED <<agent, frames, memory>>

\* the caller takes the result; the agent is ready for the next call
Collect ==
    /\ pc = "done"
    /\ pc' = "idle"
    /\ text_content' = <<>>
    /\ filename' = ""
    /\ extracted_data' = EmptyDict
    /\ parsed_data' = EmptyDict
    /\ laytime_calculations' = EmptyDict
    /\ financial_analysis' = EmptyDict
    /\ result' = None
    /\ prev' = None
    /\ UNCHANGED now
    /\ UNCHANGED <<agent, frames, memory>>

\* the caller keeps the result and calls again with the same arguments
CallAgain ==
    /\ pc = "done"
    /\ prev = None
    /\ prev' = [text_content |-> text_content, filename |-> filename,
                result |-> result]
    /\ Enter(text_content, filename)

Next ==
    \/ \E content \in Documents, name \in Filenames : Call(content, name)
    \/ ExtractSofData
    \/ ParseDatesAndTimes
    \/ CalculateLaytime
    \/ AnalyzeFinancialImplications
    \/ Return
    \/ Collect

Spec == Init /\ [][Next]_vars

\* the same calls at any moments of the clock, some of them repeated with
\* identical arguments
NextTwice == Next \/ Tick \/ CallAgain

SpecTwice == Init /\ [][NextTwice]_vars

\* the laytime and financial stages applied to any normalised data
InitCalc ==
    /\ now = 0
    /\ pc = "laytime"
    /\ text_content = <<>>
    /\ filename = ""
    /\ extracted_data = EmptyDict
    /\ parsed_data \in ParsedInputs
    /\ laytime_calculations = EmptyDict
    /\ financial_analysis = EmptyDict
    /\ result = None
    /\ prev = None
    /\ sof_patterns = SofPatterns
    /\ default_laytime_params = DefaultLaytimeParams
    /\ frames = EmptyDict
    /\ MemoryService

NextCalc == CalculateLaytime \/ AnalyzeFinancialImplications \/ Return

SpecCalc == InitCalc /\ [][NextCalc]_vars

\* the stages after the extraction applied to any raw extraction
InitParse ==
    /\ now = 0
    /\ pc = "parse"
    /\ text_content = <<>>
    /\ filename = ""
    /\ extracted_data \in RawExtractions
    /\ parsed_data = EmptyDict
    /\ laytime_calculations = EmptyDict
    /\ financial_analysis = EmptyDict
    /\ result = None
    /\ prev = None
    /\ sof_patterns = SofPatterns
    /\ default_laytime_params = DefaultLaytimeParams
    /\ frames = EmptyDict
    /\ MemoryService

NextParse ==
    ParseDatesAndTimes \/ CalculateLaytime \/ AnalyzeFinancialImplications \/ Return

SpecParse == InitParse /\ [][NextParse]_vars

\* calls on the statements of facts
NextFields ==
    \/ \E content \in FieldDocuments, name \in Filenames : Call(content, name)
    \/ ExtractSofData
    \/ ParseDatesAndTimes
    \/ CalculateLaytime
    \/ AnalyzeFinancialImplications
    \/ Return
    \/ Collect

SpecFields == Init /\ [][NextFields]_vars

(***************************************************************************)
(* Calls that share the agent and run side by side: each call has its own  *)
(* frame of locals, and a step of one call may come between any two stages *)
(* of another.                                                             *)
(***************************************************************************)
Calls == 1..MaxCalls

CargoLine == Label("cargo") \o <<Num(<<1>>), Comma, Num(<<0, 0, 0>>), Space, Word("mt")>>

SideDocuments ==
    { <<>>,
      << Label("vessel") \o NameString, Label("nor") \o StampA,
         Label("departure") \o StampB, CargoLine >>,
      << Label("nor") \o StampB, Label("departure") \o StampA >>,
      << Label("nor") \o StampA, Label("departure") \o StampA, CargoLine >> }

IdleFrame ==
    [pc |-> "idle", text_content |-> <<>>, filename |-> "",
     extracted_data |-> EmptyDict, parsed_data |-> EmptyDict,
     laytime_calculations |-> EmptyDict, financial_analysis |-> EmptyDict,
     analysis_timestamp |-> 0, result |-> None]

\* the variables of the call that runs alone
single == <<now, pc, text_content, filename, locals, result, prev>>

InitSide ==
    /\ Init!1 /\ Init!2 /\ Init!3 /\ Init!4 /\ Init!5 /\ Init!6 /\ Init!7
    /\ Init!8 /\ Init!9 /\ Init!10 /\ Init!11 /\ Init!12
    /\ MemoryService
    /\ frames = [c \in Calls |-> IdleFrame]

\* lines 74-91: call c is entered
Start(c, content, name) ==
    /\ frames[c].pc = "idle"
    /\ frames' = [frames EXCEPT ![c] =
                     [IdleFrame EXCEPT !.pc = "extract",
                                       !.text_content = DecodedText(content, name),
                                       !.filename = name]]
    /\ UNCHANGED <<single, agent, memory>>

\* Variant for sensitivity: the extraction is kept in an attribute of the
\* agent, which every call waiting for its extraction reads
ExtractIntoAgent(c) ==
    LET extracted == _extract_sof_data(frames[c].text_content, sof_patterns)
    IN  /\ frames[c].pc = "extract"
        /\ frames' = [d \in Calls |->
                         IF d = c
                         THEN [frames[d] EXCEPT !.extracted_data = extracted,
                                                !.pc = "parse"]
                         ELSE IF frames[d].pc = "parse"
                         THEN [frames[d] EXCEPT !.extracted_data = extracted]
                         ELSE frames[d]]
        /\ UNCHANGED <<single, agent, memory>>

\* line 94
Extract(c) ==
    /\ frames[c].pc = "extract"
    /\ frames' = [frames EXCEPT
                     ![c].extracted_data =
                         _extract_sof_data(frames[c].text_content, sof_patterns),
                     ![c].pc = "parse"]
    /\ UNCHANGED <<single, agent, memory>>

\* line 97
Normalize(c) ==
    /\ frames[c].pc = "parse"
    /\ frames' = [frames EXCEPT
                     ![c].parsed_data =
                         _parse_dates_and_times(frames[c].extracted_data),
                     ![c].pc = "laytime"]
    /\ UNCHANGED <<single, agent, memory>>

\* line 100
Laytime(c) ==
    /\ frames[c].pc = "laytime"
    /\ frames' = [frames EXCEPT
                     ![c].laytime_calculations =
                         _calculate_laytime(frames[c].parsed_data),
                     ![c].pc = "financial"]
    /\ UNCHANGED <<single, agent, memory>>

\* line 103
Financial(c) ==
    /\ frames[c].pc = "financial"
    /\ frames' = [frames EXCEPT
                     ![c].financial_analysis =
                         _analyze_financial_implications(
                             frames[c].parsed_data, frames[c].laytime_calculations),
                     ![c].pc = "stamp"]
    /\ UNCHANGED <<single, agent, memory>>

\* line 111
Stamp(c) ==
    /\ frames[c].pc = "stamp"
    /\ frames' = [frames EXCEPT ![c].analysis_timestamp = now,
                                ![c].pc = "score"]
    /\ UNCHANGED <<single, agent, memory>>

\* lines 105-113: the score is computed and the dict returned
Finish(c) ==
    /\ frames[c].pc = "score"
    /\ frames' = [frames EXCEPT
                     ![c].result =
                         ParseResult(frames[c].filename, frames[c].extracted_data,
                                     frames[c].parsed_data,
                                     frames[c].laytime_calculations,
                                     frames[c].financial_analysis,
                                     frames[c].analysis_timestamp),
                     ![c].pc = "done"]
    /\ UNCHANGED <<single, agent, memory>>

\* the caller takes the result
Release(c) ==
    /\ frames[c].pc = "done"
    /\ frames' = [frames EXCEPT ![c] = IdleFrame]
    /\ UNCHANGED <<single, agent, memory>>

NextSide ==
    \E c \in Calls :
        \/ \E content \in SideDocuments, name \in Filenames : Start(c, content, name)
        \/ Extract(c)
        \/ Normalize(c)
        \/ Laytime(c)
        \/ Financial(c)
        \/ Stamp(c)
        \/ Finish(c)
        \/ Release(c)

SpecSide == InitSide /\ [][NextSide]_vars

(***************************************************************************)
(* Properties.  They read the dict a finished call returned.               *)
(***************************************************************************)
Has(d, k) == k \in DOMAIN d

Done == pc = "done"

Parsed == result["parsed_data"]
Calc   == result["laytime_calculations"]
Fin    == result["financial_analysis"]

NorTime       == Get(Parsed, "nor_datetime")
DepartureTime == Get(Parsed, "departure_datetime")
ArrivalTime   == Get(Parsed, "arrival_datetime")
Allowed       == Get(Parsed, "laytime_hours")
Cargo         == Get(Parsed, "cargo_mt")

BothTimes == NorTime # None /\ DepartureTime # None
Elapsed   == HoursBetween(DepartureTime, NorTime)

Status == IF Has(Calc, "laytime_status") THEN Calc["laytime_status"] ELSE "none"

HasAmount == Has(Fin, "demurrage_amount_usd") \/ Has(Fin, "despatch_amount_usd")

\* the diagnostics a dict records (the code has no such entry)
Diagnostics(d) == IF Has(d, "diagnostics") THEN d["diagnostics"] ELSE {}

\* C1: when both timestamps are present and the departure is earlier than the
\* NOR, the call reports no laytime status and no amount, records a
\* ReversedInterval diagnostic and reports no negative total_time_hours.
C1_ReversedIntervalIsIndeterminate ==
    (Done /\ BothTimes /\ FLt(Elapsed, Flt(0))) =>
        /\ ~Has(Calc, "laytime_status")
        /\ ~HasAmount
        /\ "ReversedInterval" \in Diagnostics(result)
        /\ Has(Calc, "total_time_hours") => ~FLt(Calc["total_time_hours"], Flt(0))

\* C2: with both timestamps, a positive allowance and a non-negative elapsed
\* time, the status is within_limit with time_saved_hours = allowed - total
\* exactly when total <= allowed, and otherwise exceeded with
\* time_exceeded_hours = total - allowed > 0.
C2_ClassificationAgainstAllowance ==
    (Done /\ BothTimes /\ Allowed # None /\ FLt(Flt(0), Allowed)
          /\ ~FLt(Elapsed, Flt(0))) =>
        IF FLeq(Elapsed, Allowed)
        THEN /\ Status = "within_limit"
             /\ Has(Calc, "time_saved_hours")
             /\ Calc["time_saved_hours"] = FSub(Allowed, Elapsed)
        ELSE /\ Status = "exceeded"
             /\ Has(Calc, "time_exceeded_hours")
             /\ Calc["time_exceeded_hours"] = FSub(Elapsed, Allowed)
             /\ FLt(Flt(0), Calc["time_exceeded_hours"])

\* C3: an exceeded status gives demurrage_amount_usd = (time_exceeded_hours /
\* 24) * demurrage rate per day, tagged negative; a within_limit status gives
\* despatch_amount_usd = (time_saved_hours / 24) * despatch rate per day,
\* tagged positive.
C3_AmountFollowsClassification ==
    Done =>
        /\ Status = "exceeded" =>
              /\ Has(Fin, "demurrage_amount_usd")
              /\ Fin["demurrage_amount_usd"] =
                     FMul(FDiv(Calc["time_exceeded_hours"], Flt(24)),
                          Flt(DemurrageRateUsdPerDay))
              /\ Has(Fin, "financial_impact")
              /\ Fin["financial_impact"] = "negative"
        /\ Status = "within_limit" =>
              /\ Has(Fin, "despatch_amount_usd")
              /\ Fin["despatch_amount_usd"] =
                     FMul(FDiv(Calc["time_saved_hours"], Flt(24)),
                          Flt(DespatchRateUsdPerDay))
              /\ Has(Fin, "financial_impact")
              /\ Fin["financial_impact"] = "positive"

\* 4 saved hours at the default rates: a despatch of (4/24) * 12500
C3_Witness ==
    /\ Done
    /\ Status = "within_limit"
    /\ Calc["time_saved_hours"] = Flt(4)
    /\ Fin["despatch_amount_usd"] = Rat(4 * 12500, 24)

\* C4: a financial result with an amount also holds the per-day rate the
\* amount was computed with, the days, and the note that the rates are
\* examples to be verified; the amount equals the days times the rate.
C4_AmountCarriesRateAndNote ==
    Done =>
        /\ Has(Fin, "demurrage_amount_usd") =>
              /\ Has(Fin, "demurrage_rate_usd_per_day")
              /\ Has(Fin, "time_exceeded_days")
              /\ Fin["demurrage_amount_usd"] =
                     FMul(Fin["time_exceeded_days"], Fin["demurrage_rate_usd_per_day"])
        /\ Has(Fin, "despatch_amount_usd") =>
              /\ Has(Fin, "despatch_rate_usd_per_day")
              /\ Has(Fin, "time_saved_days")
              /\ Fin["despatch_amount_usd"] =
                     FMul(Fin["time_saved_days"], Fin["despatch_rate_usd_per_day"])
        /\ HasAmount =>
              /\ Has(Fin, "note")
              /\ Fin["note"] = RatesNote
              /\ Has(Fin, "example_rates")

C4_Witness ==
    /\ Done
    /\ Has(Fin, "demurrage_amount_usd")
    /\ Fin["demurrage_amount_usd"] = Flt(6250)
    /\ Fin["demurrage_rate_usd_per_day"] = Flt(25000)

\* C5: every call returns a complete result, and neither the result nor the
\* output of a stage is an error value.
C5_ResultNeverAnError ==
    Done =>
        /\ {"extracted_data", "parsed_data", "laytime_calculations",
            "financial_analysis", "confidence_score"} \subseteq DOMAIN result
        /\ ~Has(result, "error")
        /\ ~Has(Calc, "error")
        /\ ~Has(Fin, "error")

SameArguments ==
    /\ prev # None
    /\ prev["text_content"] = text_content
    /\ prev["filename"] = filename

C7_AbsentTimestampIsIndeterminate ==
    (Done /\ ~BothTimes) =>
        /\ ~Has(Calc, "total_time_hours")
        /\ ~Has(Calc, "laytime_status")
        /\ ~Has(Calc, "cargo_rate_mt_per_hour")
        /\ ~Has(Calc, "cargo_rate_mt_per_day")
        /\ ~HasAmount
        /\ ~Has(Fin, "financial_impact")

C7_Witness ==
    /\ Done
    /\ NorTime = None
    /\ DepartureTime # None
    /\ ArrivalTime # None
    /\ TruthyFloat(Allowed)
    /\ TruthyFloat(Cargo)

\* C8: with both timestamps (departure not earlier than NOR) and no allowance,
\* total_time_hours is reported and equals departure - NOR, no status is
\* reported and there is no amount.
C8_TotalReportedWithoutAllowance ==
    (Done /\ BothTimes /\ ~FLt(Elapsed, Flt(0)) /\ Allowed = None) =>
        /\ Has(Calc, "total_time_hours")
        /\ Calc["total_time_hours"] = Elapsed
        /\ ~Has(Calc, "laytime_status")
        /\ ~HasAmount

\* C9: cargo rates are attached exactly when the cargo quantity is present and
\* the elapsed time is positive, and then are cargo / total per hour and 24
\* times that per day.
C9_CargoRateExactlyWhenPositiveTotal ==
    Done =>
        /\ Has(Calc, "cargo_rate_mt_per_hour")
              <=> (Cargo # None /\ BothTimes /\ FLt(Flt(0), Elapsed))
        /\ Has(Calc, "cargo_rate_mt_per_hour") =>
              /\ Calc["cargo_rate_mt_per_hour"] = FDiv(Cargo, Elapsed)
              /\ Has(Calc, "cargo_rate_mt_per_day")
              /\ Calc["cargo_rate_mt_per_day"] =
                     FMul(Flt(24), Calc["cargo_rate_mt_per_hour"])

\* C10: an amount computed with the placeholder rates (the only rates a call
\* can use when its caller supplies none) comes with a RatesAssumed diagnostic
\* recorded in the result.
C10_PlaceholderRatesAreFlagged ==
    (Done /\ HasAmount) =>
        "RatesAssumed" \in (Diagnostics(result) \cup Diagnostics(Fin))

(***************************************************************************)
(* Properties of the extraction, the normalisers and the confidence score. *)
(***************************************************************************)
Extracted == result["extracted_data"]
Score     == result["confidence_score"]

FieldsWithData  == {f \in Fields : Extracted[f] # <<>>}
CriticalPresent == FieldsWithData \cap {"vessel_name", "arrival_time", "departure_time"}

\* C11: the confidence score of a raw extraction is min(p/n + (c/3)*0.2, 1.0)
\* rounded to 2 decimals, with p the number of fields that have a candidate,
\* n = 9 the number of fields and c the number of the critical fields
\* vessel_name, arrival_time, departure_time that have a candidate.
C11_ConfidenceScoreFormula ==
    Done =>
        LET p == Cardinality(FieldsWithData)
            c == Cardinality(CriticalPresent)
            \* p/9 + (c/3)*(1/5) = (5p + 3c)/45, in hundredths, half up
            hundredths == IF 5 * p + 3 * c >= 45 THEN 100
                          ELSE (200 * (5 * p + 3 * c) + 45) \div 90
        IN  /\ Cardinality(DOMAIN Extracted) = 9
            /\ Score = Rat(hundredths, 100)

C11_Witness ==
    /\ Done
    /\ Cardinality(FieldsWithData) = 5
    /\ Cardinality(CriticalPresent) = 2
    /\ Score = Rat(69, 100)

\* C12: the confidence score of every text lies in [0.0, 1.0]; it is 0.0 when
\* no field has a candidate (the empty text among them) and 1.0 when all nine
\* fields have one.
C12_ConfidenceScoreRange ==
    Done =>
        /\ FLeq(Flt(0), Score) /\ FLeq(Score, Flt(1))
        /\ FieldsWithData = {} => Score = Flt(0)
        /\ result["extracted_data"] = [f \in Fields |-> <<>>] => Score = Flt(0)
        /\ FieldsWithData = Fields => Score = Flt(1)

C12_Witness ==
    /\ Done
    /\ FieldsWithData = Fields
    /\ Score = Flt(1)

InText(line) == \E k \in 1..Len(text_content) : text_content[k] = line

\* C13: every field of the pattern table is a key of the raw extraction (with
\* an empty sequence when nothing matched), and no two candidates of a field
\* are equal strings.
C13_EveryFieldKeyedWithoutDuplicates ==
    Done =>
        /\ DOMAIN Extracted = DOMAIN SofPatterns
        /\ \A f \in DOMAIN Extracted :
              \A i, j \in 1..Len(Extracted[f]) :
                  i # j => Extracted[f][i] # Extracted[f][j]

\* the same timestamp stated twice, and a field that matched nothing
C13_Witness ==
    /\ Done
    /\ InText(Label("arrival") \o StampA)
    /\ InText(Label("eta") \o StampA)
    /\ ~InText(Label("arrived") \o NoComma)
    /\ Extracted["arrival_time"] = <<StampA>>
    /\ Extracted["vessel_name"] = <<>>

\* the groups re.findall returns for the alternatives p.. of field f, each
\* alternative's groups in its order
RECURSIVE Scans(_, _)
Scans(f, p) ==
    IF p > Len(SofPatterns[f]) THEN <<>>
    ELSE <<FindAll(text_content, 1, SofPatterns[f][p])>> \o Scans(f, p + 1)

Elements(seq) == {seq[k] : k \in 1..Len(seq)}

Min(S) == CHOOSE x \in S : \A y \in S : x <= y

\* where a candidate x first occurs: the first alternative that yields it, its
\* first place among the groups of that alternative, and the first line in
\* which that alternative yields it
FirstAlternative(scans, x) ==
    Min({p \in 1..Len(scans) : x \in Elements(scans[p])})

FirstPlace(scan, x) == Min({k \in 1..Len(scan) : scan[k] = x})

FirstLine(pat, x) ==
    Min({l \in 1..Len(text_content) :
            x \in Elements(FindAllInLine(text_content[l], 1, pat))})

IsQuantity(x) == IsNum(x[1]) \/ IsSym(x[1], ",")

\* C14: the candidates of a field are the strings its alternatives capture,
\* each once, at the place of its first occurrence in extraction order: earlier
\* alternatives first, within an alternative the matches from left to right,
\* within a match the value before the unit.
C14_CandidatesInExtractionOrder ==
    Done =>
        \A f \in Fields :
            LET scans == Scans(f, 1)
            IN  /\ Elements(Extracted[f]) =
                       UNION {Elements(scans[p]) : p \in 1..Len(scans)}
                /\ \A a, b \in 1..Len(Extracted[f]) :
                      a < b =>
                        LET x == Extracted[f][a]
                            y == Extracted[f][b]
                            px == FirstAlternative(scans, x)
                            py == FirstAlternative(scans, y)
                        IN  \/ px < py
                            \/ /\ px = py
                               /\ FirstPlace(scans[px], x) < FirstPlace(scans[py], y)
                               /\ FirstLine(SofPatterns[f][px], x)
                                      <= FirstLine(SofPatterns[f][py], y)
                /\ f \in {"laytime_allowed", "cargo_quantity"} =>
                      \A p \in 1..Len(scans) :
                          \A k \in 1..Len(scans[p]) :
                              IsQuantity(scans[p][k]) <=> k % 2 = 1

\* a later alternative matching earlier in the text, a string found again by
\* another alternative, and a unit found again by a later match
C14_Witness ==
    /\ Done
    /\ Extracted["arrival_time"] = <<StampA, NoComma>>
    /\ InText(Label("eta") \o StampA)
    /\ Extracted["cargo_quantity"] =
           << <<Comma>>, <<Word("mt")>>, <<Num(<<1>>), Comma, Num(<<0, 0, 0>>)>> >>

\* the normalised fields: the key of parsed_data and the later candidates tried
NormalisedKey ==
    [f \in {"arrival_time", "departure_time", "nor_time", "laytime_allowed",
            "cargo_quantity"} |->
        CASE f = "arrival_time" -> "arrival_datetime"
          [] f = "departure_time" -> "departure_datetime"
          [] f = "nor_time" -> "nor_datetime"
          [] f = "laytime_allowed" -> "laytime_hours"
          [] f = "cargo_quantity" -> "cargo_mt"]

LaterCandidates(f) ==
    IF f = "laytime_allowed"
       THEN {<<D2(2, 4)>>, <<Word("hours")>>, <<Num(<<3>>), Space, Word("days")>>}
    ELSE IF f = "cargo_quantity"
       THEN {<<Comma>>, <<Word("mt")>>, <<Num(<<5>>)>>}
    ELSE {StampA, StampB, Feb31}

Tails(f) ==
    {<<>>} \cup {<<x>> : x \in LaterCandidates(f)}
           \cup {<<x, y>> : x, y \in LaterCandidates(f)}

\* C15: the normalised value of arrival_time, departure_time, nor_time,
\* laytime_allowed and cargo_quantity is that of the field's first candidate
\* whatever candidates follow it, also when the first candidate does not
\* normalise and a later one would; a field without candidates has no
\* normalised value.
C15_OnlyFirstCandidateNormalised ==
    Done =>
        \A f \in DOMAIN NormalisedKey :
            IF Extracted[f] = <<>> THEN ~Has(Parsed, NormalisedKey[f])
            ELSE /\ Has(Parsed, NormalisedKey[f])
                 /\ \A tail \in Tails(f) :
                       _parse_dates_and_times(
                           [Extracted EXCEPT ![f] = <<Extracted[f][1]>> \o tail]
                       )[NormalisedKey[f]] = Parsed[NormalisedKey[f]]

\* first candidates that do not normalise, followed by ones that would
C15_Witness ==
    /\ Done
    /\ Extracted["departure_time"] = <<Feb31, StampB>>
    /\ _parse_datetime(StampB) # None
    /\ Parsed["departure_datetime"] = None
    /\ Len(Extracted["cargo_quantity"]) = 3
    /\ _parse_cargo_quantity(Extracted["cargo_quantity"][3]) = Flt(1000)
    /\ Parsed["cargo_mt"] = None
    /\ NorTime = DateTime(2024, 3, 1, 8, 0)

\* the readings "number unit" of a string: a number, with its decimals when
\* it has some, and after any white space a unit of hours or days
HasDecimals(s, i) == i + 2 <= Len(s) /\ IsSym(s[i + 1], ".") /\ IsNum(s[i + 2])

AfterNumber(s, i) == IF HasDecimals(s, i) THEN i + 3 ELSE i + 1

UnitPlaces(s, i) ==
    {k \in AfterNumber(s, i)..Len(s) :
        /\ \A m \in AfterNumber(s, i)..(k - 1) : IsSym(s[m], " ")
        /\ s[k].s \in {"hour", "hours", "day", "days"}}

ReadingPlaces(s) == {i \in 1..Len(s) : IsNum(s[i]) /\ UnitPlaces(s, i) # {}}

\* hours of the first reading of the string; None when it has none
ExpectedLaytime(s) ==
    IF ReadingPlaces(s) = {} THEN None
    ELSE LET i == Min(ReadingPlaces(s))
             number == DecimalValue(s[i].ds,
                           IF HasDecimals(s, i) THEN s[i + 2].ds ELSE <<>>)
             unit == s[Min(UnitPlaces(s, i))].s
         IN  IF unit \in {"day", "days"} THEN FMul(number, Flt(24)) ELSE number

FirstLaytime == Extracted["laytime_allowed"][1]

Accepting(s, fmts) == {k \in 1..Len(fmts) : Strptime(s, fmts[k]) # None}

FirstNor == Extracted["nor_time"][1]

\* C17: a timestamp string normalises to what the first format accepting it
\* produces, the five formats with a time tried in their order before the five
\* date-only formats in theirs (which give the time 00:00), and to None when no
\* format accepts it.
C17_FirstAcceptingFormat ==
    (Done /\ Extracted["nor_time"] # <<>>) =>
        LET timed == Accepting(FirstNor, DateTimeFormats)
            dated == Accepting(FirstNor, DateFormats)
        IN  /\ Len(DateTimeFormats) = 5 /\ Len(DateFormats) = 5
            /\ Has(Parsed, "nor_datetime")
            /\ timed # {} =>
                  NorTime = Strptime(FirstNor, DateTimeFormats[Min(timed)])
            /\ (timed = {} /\ dated # {}) =>
                  /\ NorTime = Strptime(FirstNor, DateFormats[Min(dated)])
                  /\ NorTime.hour = 0 /\ NorTime.minute = 0
            /\ (timed = {} /\ dated = {}) => NorTime = None

\* "01-03-24" is accepted by the last date-only format alone
C17_Witness ==
    /\ Done
    /\ Extracted["nor_time"] = << DateString(D2(0, 1), "-", D2(0, 3), D2(2, 4)) >>
    /\ Accepting(FirstNor, DateTimeFormats) = {}
    /\ Accepting(FirstNor, DateFormats) = {5}
    /\ NorTime = DateTime(2024, 3, 1, 0, 0)

\* a temporal field whose first candidate no format accepts
ParseFailure(f) ==
    /\ Extracted[f] # <<>>
    /\ Get(Parsed, NormalisedKey[f]) = None

\* C18: when the first candidate of arrival_time, departure_time or nor_time
\* matches no timestamp format, the field normalises to None and the result
\* records a DateTimeParseFailure diagnostic.
C18_ParseFailureIsRecorded ==
    Done =>
        \A f \in {"arrival_time", "departure_time", "nor_time"} :
            ParseFailure(f) =>
                "DateTimeParseFailure"
                    \in (Diagnostics(result) \cup Diagnostics(Parsed))

\* the normalised data with another arrival timestamp, or none
WithArrival(parsed, a) ==
    [k \in DOMAIN parsed \cup {"arrival_datetime"} |->
        IF k = "arrival_datetime" THEN a ELSE parsed[k]]

WithoutArrival(parsed) ==
    [k \in DOMAIN parsed \ {"arrival_datetime"} |-> parsed[k]]

OtherArrivals == {WithArrival(Parsed, a) : a \in Times \cup {None}}
                    \cup {WithoutArrival(Parsed)}

\* C19: the laytime calculation and the financial analysis of a call are those
\* of the same normalised data with any other arrival timestamp or none, and
\* the total is the time from nor_time to departure_time.
C19_ArrivalDoesNotMoveTheClock ==
    Done =>
        /\ \A other \in OtherArrivals :
              /\ _calculate_laytime(other) = Calc
              /\ _analyze_financial_implications(other, _calculate_laytime(other))
                     = Fin
        /\ Has(Calc, "total_time_hours") =>
              BothTimes /\ Calc["total_time_hours"] = Elapsed

\* an arrival earlier than the NOR, and a laytime measured from the NOR
C19_Witness ==
    /\ Done
    /\ ArrivalTime = DateTime(2024, 3, 1, 8, 0)
    /\ NorTime = DateTime(2024, 3, 1, 8, 20)
    /\ DepartureTime = DateTime(2024, 3, 2, 14, 0)
    /\ Has(Calc, "total_time_hours")
    /\ Calc["total_time_hours"] = Rat(89, 3)
    /\ Status = "exceeded"
    /\ Has(Fin, "demurrage_amount_usd")

\* what a call on the same text by a newly constructed agent returns
FreshResult ==
    LET extracted == _extract_sof_data(text_content, SofPatterns)
        parsed == _parse_dates_and_times(extracted)
        calculations == _calculate_laytime(parsed)
        financial == _analyze_financial_implications(parsed, calculations)
    IN  ParseResult(filename, extracted, parsed, calculations, financial,
                    result["analysis_timestamp"])

\* C20: at every step of every call the agent's pattern table and default
\* laytime parameters are those of its construction; a call starts with no
\* extraction, normalised data, laytime or financial result of an earlier
\* call, and returns what a newly constructed agent returns.
C20_CallLeavesAgentUnchanged ==
    /\ sof_patterns = SofPatterns
    /\ default_laytime_params = DefaultLaytimeParams
    /\ pc = "extract" =>
          /\ extracted_data = EmptyDict
          /\ parsed_data = EmptyDict
          /\ laytime_calculations = EmptyDict
          /\ financial_analysis = EmptyDict
    /\ Done => result = FreshResult

\* a call that ended on the failure path of the laytime stage
C20_Witness ==
    /\ Done
    /\ Has(Calc, "error")
    /\ result = FreshResult
    /\ sof_patterns = SofPatterns
    /\ default_laytime_params = DefaultLaytimeParams

\* what a call on the text of frame c returns when it runs alone
AloneResult(c) ==
    LET extracted == _extract_sof_data(frames[c].text_content, SofPatterns)
        parsed == _parse_dates_and_times(extracted)
        calculations == _calculate_laytime(parsed)
        financial == _analyze_financial_implications(parsed, calculations)
    IN  ParseResult(frames[c].filename, extracted, parsed, calculations,
                    financial, frames[c].result["analysis_timestamp"])

\* C21: a call that shares the agent with other calls, whatever steps of
\* theirs come between its stages, returns the extraction, normalised data,
\* laytime calculation, financial analysis and confidence score of the same
\* call run alone.
C21_SideBySideCallsAsAlone ==
    \A c \in DOMAIN frames :
        frames[c].pc = "done" => frames[c].result = AloneResult(c)

\* two calls on different documents, one finished while the other is between
\* its extraction and its normalisation
C21_Witness ==
    /\ DOMAIN frames = Calls
    /\ \E c, d \in Calls :
          /\ frames[c].pc = "done"
          /\ frames[d].pc = "parse"
          /\ frames[c].text_content # frames[d].text_content
          /\ frames[c].result["extracted_data"] # frames[d].extracted_data
          /\ Has(frames[c].result["laytime_calculations"], "total_time_hours")

\* C22: an allowance of 0 hours is an allowance: with both timestamps and a
\* positive elapsed time the status is exceeded with time_exceeded_hours =
\* total, and with an elapsed time of 0 it is within_limit with
\* time_saved_hours = 0.
C22_ZeroAllowanceIsPresent ==
    (Done /\ BothTimes /\ Allowed = Flt(0) /\ Cargo = None) =>
        /\ FLt(Flt(0), Elapsed) =>
              /\ Status = "exceeded"
              /\ Get(Calc, "time_exceeded_hours") = Elapsed
        /\ IsZero(Elapsed) =>
              /\ Status = "within_limit"
              /\ Get(Calc, "time_saved_hours") = Flt(0)

\* C23: when the NOR and departure timestamps are equal and a cargo quantity
\* is present, the calculation reports total_time_hours = 0 and the status the
\* allowance implies (within_limit with time_saved_hours = allowed), attaches
\* no cargo rate and is no error result.
C23_ZeroTotalWithCargo ==
    (Done /\ BothTimes /\ IsZero(Elapsed) /\ Cargo # None) =>
        /\ ~Has(Calc, "error")
        /\ Get(Calc, "total_time_hours") = Flt(0)
        /\ ~Has(Calc, "cargo_rate_mt_per_hour")
        /\ (Allowed # None /\ FLt(Flt(0), Allowed)) =>
              /\ Status = "within_limit"
              /\ Get(Calc, "time_saved_hours") = Allowed

\* the number and the unit of the first match of a laytime_allowed pattern
MatchedAllowance ==
    Extracted["laytime_allowed"][1] \o <<Space>> \o Extracted["laytime_allowed"][2]

\* C24: when a laytime_allowed pattern matches the text, the normalised
\* allowance of the call is the matched number in hours (times 24 for days);
\* with parseable NOR and departure timestamps the call then reports a
\* within_limit or exceeded status and its despatch or demurrage amount.
C24_MatchedAllowanceIsNormalised ==
    (Done /\ Len(Extracted["laytime_allowed"]) >= 2) =>
        /\ Allowed # None
        /\ Allowed = ExpectedLaytime(MatchedAllowance)
        /\ BothTimes =>
              /\ Status \in {"within_limit", "exceeded"}
              /\ HasAmount

\* the numbers of a candidate, read as day, month, year, hour and minute
Numbers(s) == SelectSeq(s, IsNum)

ValidValues(s) ==
    LET n == Numbers(s)
    IN  /\ Len(n) = 5
        /\ Len(n[3].ds) \in {2, 4}
        /\ ValidDateTime(DateTime(
               IF Len(n[3].ds) = 2 THEN 2000 + DigitsValue(n[3].ds)
               ELSE DigitsValue(n[3].ds),
               DigitsValue(n[2].ds), DigitsValue(n[1].ds),
               DigitsValue(n[4].ds), DigitsValue(n[5].ds)))

\* C25: the candidate of arrival_time, departure_time or nor_time that a call
\* normalises gives a present timestamp whenever its day, month, year, hour
\* and minute are valid, whatever separator the pattern admitted between the
\* date and the time.
C25_ValidCandidateNormalises ==
    Done =>
        \A f \in {"arrival_time", "departure_time", "nor_time"} :
            (Extracted[f] # <<>> /\ ValidValues(Extracted[f][1])) =>
                Get(Parsed, NormalisedKey[f]) # None

\* C26: a financial analysis never holds both a demurrage and a despatch
\* amount; a demurrage amount is strictly positive; a despatch amount is
\* non-negative and at most (laytime_allowed_hours / 24) times the despatch
\* rate per day.
C26_AmountsExclusiveAndBounded ==
    Done =>
        /\ ~(Has(Fin, "demurrage_amount_usd") /\ Has(Fin, "despatch_amount_usd"))
        /\ Has(Fin, "demurrage_amount_usd") =>
              FLt(Flt(0), Fin["demurrage_amount_usd"])
        /\ Has(Fin, "despatch_amount_usd") =>
              /\ FLeq(Flt(0), Fin["despatch_amount_usd"])
              /\ Has(Calc, "laytime_allowed_hours")
              /\ FLeq(Fin["despatch_amount_usd"],
                      FMul(FDiv(Calc["laytime_allowed_hours"], Flt(24)),
                           Flt(DespatchRateUsdPerDay)))

\* the extraction of the call with a candidate added to the fields of S
WithCandidates(S) ==
    [f \in Fields |->
        IF Extracted[f] # <<>> THEN Extracted[f]
        ELSE IF f \in S THEN <<Standard[f]>> ELSE <<>>]

\* C27: the confidence score is monotone in field presence: an extraction in
\* which every field with a candidate in the extraction of the call has one
\* too scores at least as much as the call.
C27_ScoreMonotoneInPresence ==
    Done =>
        \A S \in SUBSET Fields :
            FLeq(Score, _calculate_confidence_score(WithCandidates(S)))

\* one field against two: 0.18 for vessel_name alone, 0.29 with port_name
C27_Witness ==
    /\ Done
    /\ FieldsWithData = {"vessel_name"}
    /\ Score = Rat(18, 100)
    /\ _calculate_confidence_score(WithCandidates({"port_name"})) = Rat(29, 100)

\* C28 as stated: a confidence score of 1.0 is returned only when all nine
\* fields have a candidate.
C28_FullScoreOnlyWhenComplete ==
    Done => (Score = Flt(1) => FieldsWithData = Fields)

\* C28 as the code has it: the confidence score is 1.0 exactly when at least
\* eight of the nine fields have a candidate (with eight, at least two of the
\* three critical fields are among them and 8/9 + 2/15 exceeds 1); with two
\* or more fields missing it is at most 0.98.
C28_FullScoreFromEightFields ==
    Done =>
        /\ Score = Flt(1) <=> Cardinality(FieldsWithData) >= 8
        /\ Cardinality(FieldsWithData) <= 7 => FLeq(Score, Rat(98, 100))

\* every field but vessel_name: 8/9 + (2/3) * 0.2 capped at 1.0
C28_Witness ==
    /\ Done
    /\ FieldsWithData = Fields \ {"vessel_name"}
    /\ Score = Flt(1)

(***************************************************************************)
(* utils/helpers.py: calculate_demurrage_despatch.  round(x, 2) is Round2: *)
(* the arguments are non-negative, and no amount or number of days of the  *)
(* inputs below lies halfway between two hundredths.                       *)
(***************************************************************************)
calculate_demurrage_despatch(actual_hours, allowed_hours, daily_rate) ==
    LET time_difference == FSub(actual_hours, allowed_hours)
        time_difference_days == FDiv(time_difference, Flt(24))
        time_saved_hours == IF FLt(time_difference, Flt(0))
                            THEN FSub(Flt(0), time_difference)
                            ELSE time_difference
        time_saved_days == FDiv(time_saved_hours, Flt(24))
    IN  IF FLt(Flt(0), time_difference)
        THEN [type |-> "demurrage",
              time_exceeded_hours |-> time_difference,
              time_exceeded_days |-> Round2(time_difference_days),
              daily_rate |-> daily_rate,
              amount |-> Round2(FMul(time_difference_days, daily_rate)),
              penalty |-> TRUE]
        ELSE [type |-> "despatch",
              time_saved_hours |-> time_saved_hours,
              time_saved_days |-> Round2(time_saved_days),
              daily_rate |-> daily_rate,
              despatch_rate |-> FMul(daily_rate, Rat(1, 2)),
              amount |-> Round2(FMul(FMul(time_saved_days, daily_rate), Rat(1, 2))),
              bonus |-> TRUE]

HelperResult ==
    calculate_demurrage_despatch(Elapsed, Allowed, Flt(DemurrageRateUsdPerDay))

\* C29: for a total of at least 0 hours and an allowance above 0, the helper
\* calculate_demurrage_despatch(total, allowed, 25000) returns type demurrage
\* exactly when the call's status is exceeded and type despatch exactly when
\* it is within_limit, with the same exceeded or saved hours, and its amount
\* is the call's amount rounded to 2 decimals.
C29_HelperAgreesWithParser ==
    (Done /\ BothTimes /\ FLeq(Flt(0), Elapsed)
          /\ Allowed # None /\ FLt(Flt(0), Allowed)) =>
        /\ HelperResult["type"] = "demurrage" <=> Status = "exceeded"
        /\ HelperResult["type"] = "despatch" <=> Status = "within_limit"
        /\ Status = "exceeded" =>
              /\ HelperResult["time_exceeded_hours"] = Calc["time_exceeded_hours"]
              /\ Has(Fin, "demurrage_amount_usd")
              /\ HelperResult["amount"] = Round2(Fin["demurrage_amount_usd"])
        /\ Status = "within_limit" =>
              /\ HelperResult["time_saved_hours"] = Calc["time_saved_hours"]
              /\ Has(Fin, "despatch_amount_usd")
              /\ HelperResult["amount"] = Round2(Fin["despatch_amount_usd"])

(***************************************************************************)
(* services/memory.py: the contexts of the memory service.  Time is        *)
(* counted in minutes; a timestamp is the minute datetime.now() gave       *)
(* (fromisoformat reads back what isoformat wrote), and the calls to       *)
(* datetime.now() within one method give the same minute.                  *)
(***************************************************************************)
MaxMinutes == 3
MaxContexts == 1
MaxInteractions == 1

max_interactions == 1000
conversation_timeout_hours == 24
context_timeout_minutes == 30

ContextIds  == 1..MaxContexts
ContextData == {[topic |-> "laytime"]}
NewData     == {[topic |-> "weather"]}
\* an int argument that may be None
PyInt(v)    == [py |-> "int", v |-> v]
Timeouts    == {None, PyInt(0), PyInt(1)}
\* a conversation or interaction id: the caller's string, or the k-th of uuid4
Id(k) == [py |-> "str", k |-> k]
ConversationIds == {None, Id(0)}

\* lines 337-345
_is_context_expired(context) ==
    LET created_at == context["created_at"]
        timeout_minutes == context["timeout_minutes"]
        timeout_threshold == wallclock - timeout_minutes
    IN  created_at < timeout_threshold

\* a dict without some of its keys
Without(d, keys) == [k \in DOMAIN d \ keys |-> d[k]]

\* dict.update
Updated(d, new) == [k \in DOMAIN d \cup DOMAIN new |->
                       IF k \in DOMAIN new THEN new[k] ELSE d[k]]

\* the minutes pass
Pass ==
    /\ wallclock < MaxMinutes
    /\ wallclock' = wallclock + 1
    /\ UNCHANGED <<conversations, interactions, active_contexts, issued, returned>>
    /\ UNCHANGED <<single, agent, frames>>

\* lines 199-216; timeout_minutes or self.context_timeout_minutes takes the
\* default for None and for 0
create_context(context_data, timeout_minutes) ==
    LET context_id == issued + 1
    IN  /\ issued < MaxContexts
        /\ issued' = context_id
        /\ active_contexts' =
               (context_id :>
                   [id |-> context_id,
                    created_at |-> wallclock,
                    timeout_minutes |->
                        IF timeout_minutes = None \/ timeout_minutes.v = 0
                        THEN context_timeout_minutes ELSE timeout_minutes.v,
                    data |-> context_data,
                    last_accessed |-> wallclock])
               @@ active_contexts
        /\ returned' = [op |-> "create_context", id |-> context_id,
                        value |-> context_id]
        /\ UNCHANGED <<wallclock, conversations, interactions>>
        /\ UNCHANGED <<single, agent, frames>>

\* lines 218-238
get_context(context_id) ==
    /\ IF context_id \notin DOMAIN active_contexts
       THEN /\ returned' = [op |-> "get_context", id |-> context_id,
                            value |-> None]
            /\ UNCHANGED active_contexts
       ELSE IF _is_context_expired(active_contexts[context_id])
       THEN /\ active_contexts' = Without(active_contexts, {context_id})
            /\ returned' = [op |-> "get_context", id |-> context_id,
                            value |-> None]
       ELSE /\ active_contexts' =
                   [active_contexts EXCEPT ![context_id].last_accessed = wallclock]
            /\ returned' = [op |-> "get_context", id |-> context_id,
                            value |-> active_contexts[context_id]["data"]]
    /\ UNCHANGED <<wallclock, conversations, interactions, issued>>
    /\ UNCHANGED <<single, agent, frames>>

\* lines 240-256
update_context(context_id, new_data) ==
    /\ IF context_id \notin DOMAIN active_contexts
       THEN /\ returned' = [op |-> "update_context", id |-> context_id,
                            value |-> FALSE]
            /\ UNCHANGED active_contexts
       ELSE /\ active_contexts' =
                   [active_contexts EXCEPT
                       ![context_id].data = Updated(@, new_data),
                       ![context_id].last_accessed = wallclock]
            /\ returned' = [op |-> "update_context", id |-> context_id,
                            value |-> TRUE]
    /\ UNCHANGED <<wallclock, conversations, interactions, issued>>
    /\ UNCHANGED <<single, agent, frames>>

\* sort(key=timestamp, reverse=True): the latest first, equal timestamps in
\* the order they had
RECURSIVE LatestFirst(_)
LatestFirst(s) ==
    IF s = <<>> THEN <<>>
    ELSE LET i == CHOOSE j \in 1..Len(s) :
                     /\ \A k \in 1..Len(s) : s[k].timestamp <= s[j].timestamp
                     /\ \A k \in 1..(j - 1) : s[k].timestamp < s[j].timestamp
         IN  <<s[i]>> \o LatestFirst(SubSeq(s, 1, i - 1) \o SubSeq(s, i + 1, Len(s)))

\* lines 347-378, on the conversations, interactions and contexts it is given
CleanConversations(convs) ==
    Without(convs, {c \in DOMAIN convs :
                       wallclock - convs[c].last_updated
                           > conversation_timeout_hours * 60})

CleanInteractions(inter) ==
    IF Len(inter) > max_interactions
    THEN SubSeq(LatestFirst(inter), 1, max_interactions)
    ELSE inter

CleanContexts(contexts) ==
    Without(contexts, {c \in DOMAIN contexts : _is_context_expired(contexts[c])})

\* lines 24-79, called without a context dict; the id of a conversation that
\* is not given comes from uuid4
store_interaction(user_message, ai_response, agent_type, given_id) ==
    LET conversation_id == IF given_id = None
                           THEN Id(2 * Len(interactions) + 1)
                           ELSE given_id
        interaction == [id |-> Id(2 * Len(interactions) + 2),
                        conversation_id |-> conversation_id,
                        timestamp |-> wallclock,
                        user_message |-> user_message,
                        ai_response |-> ai_response,
                        agent_type |-> agent_type,
                        context |-> EmptyDict,
                        metadata |-> [message_length |-> Len(user_message),
                                      response_length |-> Len(ai_response),
                                      processing_time |-> None]]
        conv == IF conversation_id \in DOMAIN conversations
                THEN conversations[conversation_id]
                ELSE [id |-> conversation_id,
                      created_at |-> wallclock,
                      last_updated |-> wallclock,
                      interaction_count |-> 0,
                      agent_types_used |-> {},
                      context_summary |-> EmptyDict]
        maintained == (conversation_id :>
                          [conv EXCEPT
                              !.last_updated = wallclock,
                              !.interaction_count = @ + 1,
                              !.agent_types_used = @ \cup {agent_type}])
                      @@ conversations
    IN  /\ Len(interactions) < MaxInteractions
        /\ interactions' = CleanInteractions(Append(interactions, interaction))
        /\ conversations' = CleanConversations(maintained)
        /\ active_contexts' = CleanContexts(active_contexts)
        /\ returned' = [op |-> "store_interaction", id |-> conversation_id,
                        value |-> conversation_id]
        /\ UNCHANGED <<wallclock, issued>>
        /\ UNCHANGED <<single, agent, frames>>

NextMemory ==
    \/ Pass
    \/ \E d \in ContextData, t \in Timeouts : create_context(d, t)
    \/ \E c \in ContextIds : get_context(c)
    \/ \E c \in ContextIds, d \in NewData : update_context(c, d)
    \/ \E g \in ConversationIds :
           store_interaction(<<"h", "i">>, <<"o", "k">>, "general", g)

SpecMemory == Init /\ [][NextMemory]_vars

\* a context whose age since creation exceeds its timeout
Overdue(c) ==
    /\ c \in DOMAIN active_contexts
    /\ wallclock - active_contexts[c].created_at > active_contexts[c].timeout_minutes

\* C30: a context whose age since creation exceeds its timeout is neither
\* readable nor writable: get_context returns None for it and removes it,
\* update_context returns False and leaves its data unchanged, and no call
\* changes the creation time or the timeout of a context that stays.
C30_OverdueContextIsClosed ==
    [][\A c \in ContextIds :
          /\ (Overdue(c) /\ get_context(c)) =>
                 /\ returned'.value = None
                 /\ c \notin DOMAIN active_contexts'
          /\ \A d \in NewData :
                 (Overdue(c) /\ update_context(c, d)) =>
                     /\ returned'.value = FALSE
                     /\ c \in DOMAIN active_contexts'
                     /\ active_contexts'[c].data = active_contexts[c].data
          /\ (c \in DOMAIN active_contexts /\ c \in DOMAIN active_contexts') =>
                 /\ active_contexts'[c].created_at = active_contexts[c].created_at
                 /\ active_contexts'[c].timeout_minutes
                        = active_contexts[c].timeout_minutes
      ]_vars

====
